---- MODULE Spec2Model ----
\* Modbus RTU silo monitoring service: the polling worker (ModbusPoller), the
\* state store (SiloDataManager) and the batch persistence worker
\* (DatabaseManager), as one state machine.
EXTENDS Integers, Sequences, FiniteSets, TLC

\* ------------------------------------------------------------------ bounds
\* Number of update_slave calls a run of Spec is followed for.
MaxUpdates == 3
\* Number of update_slave calls a run of SpecPersist is followed for.
PersistUpdates == 2
\* Number of update_slave calls a run of SpecRead is followed for.
ReadUpdates == 2
\* Number of update_slave calls a run of SpecAlerts is followed for.
AlertUpdates == 6
\* Number of update_slave calls a run of SpecStore is followed for.
StoreUpdates == 2
\* Number of update_slave calls a run of SpecShutdown is followed for.
ShutdownUpdates == 3
\* Number of update_slave calls a run of SpecHistory is followed for.
HistoryUpdates == 2
\* Number of update_slave calls a run of SpecSnapshot is followed for.
SnapshotUpdates == 2
\* Number of update_slave calls a run of SpecRing is followed for.
RingUpdates == 5
\* Number of update_slave calls a run of SpecCrash is followed for.
CrashUpdates == 4
\* Number of update_slave calls a run of SpecQueue is followed for (enough to
\* overfill the queue).
QueueUpdates == 1002

\* ----------------------------------------------------------- configuration
\* polling.slaves, in configured order.
slaves == <<1, 2>>
Slaves == {slaves[i] : i \in 1..Len(slaves)}
\* validation.min_value / validation.max_value.
min_value == 0
max_value == 28000
\* polling.max_retries.
max_retries == 3
\* database.batch_size of the modelled configuration.
batch_size == 2
\* history_max_points of the modelled configuration.
history_max_points == 2
\* queue.Queue(maxsize=1000).
write_queue_maxsize == 1000
\* ModbusPoller.connection_timeout (2 s), and the sleeps of the poller, all in
\* units of 100 ms.
connection_timeout == 20
ensure_retry_sleep == 5
retry_sleep == 2
slave_delay == 1
min_cycle_sleep == 10
modbus_timeout == 10
\* alerts.offline_threshold_minutes (5 min) and
\* telegram.alert_cooldown_minutes (15 min), in poll intervals of 30 s.
offline_threshold == 10
cooldown_period == 30

\* Optional[int] = None, and Optional[str] = None.
None == 0 - 1
NoError == "None"

\* Register words the devices answer with: two in-range values (the second is
\* max_value) and one above max_value.
RegisterValues == {8120, 28000, 28001}

\* Outcomes of one read_holding_registers call: a response carrying one
\* register, a Modbus exception response (isError), a response without
\* registers, an exception whose text holds one of the I/O keywords, and any
\* other exception.
Responses ==
    [kind : {"registers"}, value : RegisterValues]
    \cup [kind : {"isError", "empty", "exc_io", "exc_other"}, value : {None}]

\* No response received yet in the current read_slave call.
NoResponse == [kind |-> "none", value |-> None]

\* The error texts read_slave and update_slave produce (attempt numbers and
\* exception texts left out).
ErrUnavailable == "Connessione non disponibile"
ErrLost == "Connessione persa durante la lettura"
ErrModbus == "Errore Modbus"
ErrExhausted == "Tentativi esauriti"
ErrRange == "Valore fuori range"

VARIABLES
    silo_data,          \* SiloDataManager.silo_data: slave -> SiloStatus
    history,            \* SiloDataManager.history: slave -> deque of samples
    stats,              \* SiloDataManager.stats (total_polls, successful_polls)
    client,             \* ModbusPoller.client: "none", "open" or "closed" handle
    is_connected,       \* ModbusPoller.is_connected
    client_lock,        \* ModbusPoller.client_lock: "free" or its holder
    since_attempt,      \* time.time() - last_connection_attempt, capped at connection_timeout
    bus,                \* operations in progress on the serial handle, by kind
    stop_event,         \* the global stop_event set by the signal handler
    poll,               \* the polling worker: position and locals
    write_queue,        \* DatabaseManager.write_queue
    writer,             \* the batch writer worker: position, records_buffer, index
    connection,         \* DatabaseManager.connection: "none", "ok" or "broken"
    txn,                \* rows inserted in the open transaction, not yet committed
    table,              \* committed rows of the monitoring table, in insertion order
    database_enabled,   \* database.enabled of the configuration
    lock,               \* SiloDataManager.lock: "free" or its holder
    handler,            \* the signal handler on the main thread: its position
    http,               \* an HTTP worker of the Flask application: position and locals
    alerts,             \* TelegramAlertManager: enabled, currently_offline, last_alerts, locals,
                        \* and the history of its evaluations and notifications
    log                 \* history of the run: last update per slave, warnings, flushes,
                        \* transactions and last response of the read in progress

vars == <<silo_data, history, stats, client, is_connected, client_lock,
          since_attempt, bus, poll, write_queue, writer, connection, txn,
          table, database_enabled, alerts, stop_event, log, lock, handler,
          http>>

storeVars == <<silo_data, history>>
busVars == <<client, is_connected, client_lock, since_attempt, bus>>
dbVars == <<writer, connection, txn, table, database_enabled>>

\* ------------------------------------------------------------- state store
\* @dataclass SiloStatus with its defaults.
SiloStatus ==
    [value |-> None, percent |-> None, online |-> FALSE, last_ok |-> None,
     last_error |-> NoError, error_count |-> 0, total_reads |-> 0]

\* Values v in 0..max_value for which the float expression (v / 28000) * 100
\* falls just below the exact quotient (IEEE-754 double arithmetic).
FloatShort == {8120, 15960, 16240}

\* int((value / max_val) * 100)
Percent(value) ==
    IF value \in FloatShort
    THEN (value * 100) \div max_value - 1
    ELSE (value * 100) \div max_value

\* The wall clock read by datetime.now() / time.time(), at the resolution of
\* one poll cycle.
Now == stats.total_polls

\* A range check that leaves out max_val.
InRangeExclusive(value) == min_value <= value /\ value < max_value

\* min_val <= value <= max_val
InRange(value) == min_value <= value /\ value <= max_value

\* An update is accepted when it carries no error and an in-range value.
Accepted(value, error) == error = NoError /\ InRange(value)

\* A full ring that gives up its newest sample for the new one.
DequeAppendEvictsNewest(d, sample) ==
    IF Len(d) >= history_max_points
    THEN Append(SubSeq(d, 1, Len(d) - 1), sample)
    ELSE Append(d, sample)

\* deque(maxlen=history_max_points).append(sample)
DequeAppend(d, sample) ==
    IF Len(d) >= history_max_points
    THEN Append(SubSeq(d, 2, Len(d)), sample)
    ELSE Append(d, sample)

\* update_slave counting a read only when it is accepted.
UpdatedStatusCountsAccepted(silo, value, error) ==
    IF error # NoError
    THEN [silo EXCEPT !.online = FALSE, !.last_error = error,
                      !.error_count = @ + 1]
    ELSE IF InRange(value)
         THEN [silo EXCEPT !.value = value, !.percent = Percent(value),
                           !.online = TRUE, !.last_ok = Now,
                           !.last_error = NoError, !.total_reads = @ + 1]
         ELSE [silo EXCEPT !.online = FALSE, !.last_error = ErrRange,
                           !.error_count = @ + 1]

\* update_slave without the range check.
UpdatedStatusNoRangeCheck(silo, value, error) ==
    LET counted == [silo EXCEPT !.total_reads = @ + 1]
    IN  IF error # NoError
        THEN [counted EXCEPT !.online = FALSE, !.last_error = error,
                             !.error_count = @ + 1]
        ELSE [counted EXCEPT !.value = value, !.percent = Percent(value),
                             !.online = TRUE, !.last_ok = Now,
                             !.last_error = NoError]

\* update_slave leaving online as it was when the read returned an error.
UpdatedStatusKeepsOnline(silo, value, error) ==
    LET counted == [silo EXCEPT !.total_reads = @ + 1]
    IN  IF error # NoError
        THEN [counted EXCEPT !.last_error = error, !.error_count = @ + 1]
        ELSE IF InRange(value)
             THEN [counted EXCEPT !.value = value, !.percent = Percent(value),
                                  !.online = TRUE, !.last_ok = Now,
                                  !.last_error = NoError]
             ELSE [counted EXCEPT !.online = FALSE, !.last_error = ErrRange,
                                  !.error_count = @ + 1]

\* update_slave storing the value of an out-of-range reading.
UpdatedStatusStoresRejected(silo, value, error) ==
    LET counted == [silo EXCEPT !.total_reads = @ + 1]
    IN  IF error # NoError
        THEN [counted EXCEPT !.online = FALSE, !.last_error = error,
                             !.error_count = @ + 1]
        ELSE IF InRange(value)
             THEN [counted EXCEPT !.value = value, !.percent = Percent(value),
                                  !.online = TRUE, !.last_ok = Now,
                                  !.last_error = NoError]
             ELSE [counted EXCEPT !.value = value, !.online = FALSE,
                                  !.last_error = ErrRange,
                                  !.error_count = @ + 1]

\* update_slave forgetting the value of a device whose update is rejected.
UpdatedStatusClearsValue(silo, value, error) ==
    LET counted == [silo EXCEPT !.total_reads = @ + 1]
    IN  IF error # NoError
        THEN [counted EXCEPT !.online = FALSE, !.last_error = error,
                             !.error_count = @ + 1, !.value = None,
                             !.percent = None]
        ELSE IF InRange(value)
             THEN [counted EXCEPT !.value = value, !.percent = Percent(value),
                                  !.online = TRUE, !.last_ok = Now,
                                  !.last_error = NoError]
             ELSE [counted EXCEPT !.online = FALSE, !.last_error = ErrRange,
                                  !.error_count = @ + 1, !.value = None,
                                  !.percent = None]

\* The SiloStatus of a slave after update_slave(slave_id, value, error).
UpdatedStatus(silo, value, error) ==
    LET counted == [silo EXCEPT !.total_reads = @ + 1]
    IN  IF error # NoError
        THEN [counted EXCEPT !.online = FALSE, !.last_error = error,
                             !.error_count = @ + 1]
        ELSE IF InRange(value)
             THEN [counted EXCEPT !.value = value, !.percent = Percent(value),
                                  !.online = TRUE, !.last_ok = Now,
                                  !.last_error = NoError]
             ELSE [counted EXCEPT !.online = FALSE, !.last_error = ErrRange,
                                  !.error_count = @ + 1]

\* update_slave appending a sample for an out-of-range value too.
UpdatedHistoryAppendsRejected(ring, value, error) ==
    IF error = NoError
    THEN DequeAppend(ring, [timestamp |-> Now, value |-> value,
                            percent |-> Percent(value)])
    ELSE ring

\* The history ring of a slave after update_slave(slave_id, value, error).
UpdatedHistory(ring, value, error) ==
    IF Accepted(value, error)
    THEN DequeAppend(ring, [timestamp |-> Now, value |-> value,
                            percent |-> Percent(value)])
    ELSE ring

\* ------------------------------------------------------ persistence queue
\* DatabaseManager._map_slave_to_erp_code: "S" and the slave id, zero-padded
\* to two digits.
ErpCode(slave_id) ==
    "S" \o (IF slave_id < 10 THEN "0" ELSE "") \o ToString(slave_id)

\* DatabaseRecord built by queue_data from asdict(silo).  The last field is
\* history of the run, not a field of the program's record: the number of the
\* update that produced the record, and the value and error that update was
\* called with.
DatabaseRecord(slave_id, status, update) ==
    [slave_id |-> slave_id, timestamp |-> Now, value |-> status.value,
     percent |-> status.percent, online |-> status.online,
     error_message |-> status.last_error, update |-> update]

\* A queue that takes one record more than maxsize.
QueueFullOffByOne(q) == Len(q) > write_queue_maxsize

\* write_queue.put_nowait(record) raises queue.Full on a full queue.
QueueFull(q) == Len(q) >= write_queue_maxsize

\* queue_data enqueuing the records of accepted updates only.
QueueDataAcceptedOnly(q, slave_id, status, update) ==
    IF QueueFull(q) \/ ~status.online
    THEN q
    ELSE Append(q, DatabaseRecord(slave_id, status, update))

\* The queue after queue_data(slave_id, asdict(silo)).
QueueData(q, slave_id, status, update) ==
    IF QueueFull(q)
    THEN q
    ELSE Append(q, DatabaseRecord(slave_id, status, update))

\* ------------------------------------------------------------ poller: time
Min(a, b) == IF a < b THEN a ELSE b

\* The time since the last connection attempt after d more units have passed.
Elapse(age, d) == Min(age + d, connection_timeout)

\* Durations of one bus transaction: an immediate answer, or the timeout.
TxnDurations == {0, modbus_timeout}

\* -------------------------------------------------- poller: ensure_connection
\* Where the poller continues after ensure_connection returned ok at a call
\* site: the initial call of polling_loop ("start"), the first call of
\* read_slave ("read1") and its second call after the 0.5 s sleep ("read2").
AfterEnsure(site, ok) ==
    CASE site = "start" -> [poll EXCEPT !.pc = "cycle"]
      [] site = "read1" ->
            IF ok THEN [poll EXCEPT !.pc = "txn"]
            ELSE [poll EXCEPT !.pc = "read2"]
      [] site = "read2" ->
            IF ok THEN [poll EXCEPT !.pc = "txn"]
            ELSE [poll EXCEPT !.pc = "update", !.value = None,
                              !.error = ErrUnavailable]

\* time.sleep(0.5) after a failed first ensure_connection of read_slave.
EnsureSleep(site, ok) == IF site = "read1" /\ ~ok THEN ensure_retry_sleep ELSE 0

\* ensure_connection opening the port whenever it is not connected.
EnsureConnectionNoLimit ==
    /\ poll.pc \in {"start", "read1", "read2"}
    /\ client_lock = "free"
    /\ IF is_connected /\ client = "open"
       THEN /\ poll' = AfterEnsure(poll.pc, TRUE)
            /\ UNCHANGED busVars
       ELSE /\ since_attempt' = 0
            /\ client' = "closed"
            /\ client_lock' = "poller"
            /\ bus' = [bus EXCEPT !.connect = @ + 1]
            /\ poll' = [poll EXCEPT !.site = poll.pc, !.pc = "connecting"]
            /\ UNCHANGED is_connected
    /\ UNCHANGED <<lock, handler, http, alerts, stop_event, storeVars, stats, write_queue, dbVars,
                   log>>

\* ensure_connection, from taking client_lock to the call of client.connect():
\* returns True on an open connection, False inside the rate-limit window, and
\* otherwise closes the old handle and starts opening a new one.
EnsureConnection ==
    /\ poll.pc \in {"start", "read1", "read2"}
    /\ client_lock = "free"
    /\ IF is_connected /\ client = "open"
       THEN /\ poll' = AfterEnsure(poll.pc, TRUE)
            /\ UNCHANGED busVars
       ELSE IF since_attempt < connection_timeout
       THEN /\ poll' = AfterEnsure(poll.pc, FALSE)
            /\ since_attempt' = Elapse(since_attempt, EnsureSleep(poll.pc, FALSE))
            /\ UNCHANGED <<client, is_connected, client_lock, bus>>
       ELSE /\ since_attempt' = 0
            /\ client' = "closed"
            /\ client_lock' = "poller"
            /\ bus' = [bus EXCEPT !.connect = @ + 1]
            /\ poll' = [poll EXCEPT !.site = poll.pc, !.pc = "connecting"]
            /\ UNCHANGED is_connected
    /\ UNCHANGED <<lock, handler, http, alerts, stop_event, storeVars, stats, write_queue, dbVars, log>>

\* client.connect() returns True, returns False or raises; ensure_connection
\* records the result and releases client_lock.
ConnectReturns(ok) ==
    /\ poll.pc = "connecting"
    /\ client' = IF ok THEN "open" ELSE "closed"
    /\ is_connected' = ok
    /\ client_lock' = "free"
    /\ bus' = [bus EXCEPT !.connect = @ - 1]
    /\ poll' = AfterEnsure(poll.site, ok)
    /\ since_attempt' = Elapse(since_attempt, EnsureSleep(poll.site, ok))
    /\ UNCHANGED <<lock, handler, http, alerts, stop_event, storeVars, stats, write_queue, dbVars, log>>

\* ------------------------------------------------------- poller: read_slave
\* read_slave sending the request without taking client_lock.
TxnBeginUnlocked ==
    /\ poll.pc = "txn"
    /\ IF ~is_connected \/ client = "none"
       THEN /\ poll' = [poll EXCEPT !.pc = "update", !.value = None,
                                    !.error = ErrLost]
            /\ UNCHANGED <<bus, log>>
       ELSE /\ bus' = [bus EXCEPT !.transaction = @ + 1]
            /\ log' = [log EXCEPT !.txns = @ + 1]
            /\ poll' = [poll EXCEPT !.pc = "inflight"]
    /\ UNCHANGED <<lock, handler, http, alerts, stop_event, storeVars, stats, client, is_connected,
                   client_lock, since_attempt, write_queue, dbVars>>

\* read_slave, from taking client_lock to the call of
\* client.read_holding_registers(address=10, count=1, device_id=slave_id):
\* without a connection it returns the "connection lost" error, otherwise the
\* request goes out on the bus with the lock held.
TxnBegin ==
    /\ poll.pc = "txn"
    /\ client_lock = "free"
    /\ IF ~is_connected \/ client = "none"
       THEN /\ poll' = [poll EXCEPT !.pc = "update", !.value = None,
                                    !.error = ErrLost]
            /\ UNCHANGED <<client_lock, bus, log>>
       ELSE /\ client_lock' = "poller"
            /\ bus' = [bus EXCEPT !.transaction = @ + 1]
            /\ log' = [log EXCEPT !.txns = @ + 1]
            /\ poll' = [poll EXCEPT !.pc = "inflight"]
    /\ UNCHANGED <<lock, handler, http, alerts, stop_event, storeVars, stats, client, is_connected,
                   since_attempt, write_queue, dbVars>>

\* read_slave going on to one attempt more than max_retries.
NextAttemptOneMore ==
    IF poll.attempt < max_retries
    THEN [poll EXCEPT !.pc = "txn", !.attempt = @ + 1]
    ELSE [poll EXCEPT !.pc = "update", !.value = None, !.error = ErrExhausted]

\* The poller's locals after an attempt that ended without a result: the next
\* attempt, or "attempts exhausted" after the last one.
NextAttempt ==
    IF poll.attempt < max_retries - 1
    THEN [poll EXCEPT !.pc = "txn", !.attempt = @ + 1]
    ELSE [poll EXCEPT !.pc = "update", !.value = None, !.error = ErrExhausted]

\* read_slave, from the answer of read_holding_registers (resp, after d time
\* units; an exception may leave the handle closed) to the next attempt or the
\* return: the lock is released and the answer classified.
TxnEnd(resp, d, closed) ==
    /\ poll.pc = "inflight"
    /\ client_lock' = "free"
    /\ bus' = [bus EXCEPT !.transaction = @ - 1]
    /\ client' = IF closed /\ resp.kind \in {"exc_io", "exc_other"}
                 THEN "closed" ELSE client
    /\ CASE resp.kind = "isError" ->
              IF poll.attempt = max_retries - 1
              THEN /\ is_connected' = FALSE
                   /\ poll' = [poll EXCEPT !.pc = "update", !.value = None,
                                           !.error = ErrModbus]
                   /\ since_attempt' = Elapse(since_attempt, d)
              ELSE /\ poll' = [poll EXCEPT !.pc = "txn", !.attempt = @ + 1]
                   /\ since_attempt' = Elapse(since_attempt, d)
                   /\ UNCHANGED is_connected
         [] resp.kind = "registers" ->
              /\ poll' = [poll EXCEPT !.pc = "update", !.value = resp.value,
                                      !.error = NoError]
              /\ since_attempt' = Elapse(since_attempt, d)
              /\ UNCHANGED is_connected
         [] OTHER ->
              /\ is_connected' = IF resp.kind = "exc_io" THEN FALSE
                                 ELSE is_connected
              /\ poll' = NextAttempt
              /\ since_attempt' =
                    Elapse(since_attempt,
                           d + (IF poll.attempt < max_retries - 1
                                THEN retry_sleep ELSE 0))
    /\ log' = [log EXCEPT !.response = resp]
    /\ UNCHANGED <<lock, handler, http, alerts, stop_event, storeVars, stats, write_queue, dbVars>>

\* ---------------------------------------------------- poller: update_slave
\* The number of update_slave calls made so far.
RECURSIVE SumReads(_)
SumReads(k) ==
    IF k = 0 THEN 0 ELSE silo_data[slaves[k]].total_reads + SumReads(k - 1)

UpdateCount == SumReads(Len(slaves))

\* update_slave(slave_id, value, error) with the result of read_slave, then
\* the rest of the loop body of polling_loop: successful_reads counts the
\* reads that returned no error, and the poller sleeps slave_delay.
UpdateSlave ==
    /\ poll.pc = "update"
    /\ LET slave_id == slaves[poll.idx]
           status == UpdatedStatus(silo_data[slave_id], poll.value, poll.error)
           update == [ordinal |-> UpdateCount + 1, slave_id |-> slave_id,
                      value |-> poll.value, error |-> poll.error]
       IN  /\ silo_data' = [silo_data EXCEPT ![slave_id] = status]
           /\ history' = [history EXCEPT ![slave_id] =
                             UpdatedHistory(@, poll.value, poll.error)]
           /\ write_queue' =
                 IF database_enabled
                 THEN QueueData(write_queue, slave_id, status, update)
                 ELSE write_queue
           /\ log' = [log EXCEPT
                        !.last_update[slave_id] = update,
                        !.txns = 0,
                        !.response = NoResponse,
                        !.queue_full =
                            IF database_enabled /\ QueueFull(write_queue)
                            THEN @ + 1 ELSE @]
    /\ poll' = [poll EXCEPT !.pc = "slave", !.idx = @ + 1, !.attempt = 0,
                            !.value = None, !.error = NoError,
                            !.successful_reads =
                                IF poll.error = NoError THEN @ + 1 ELSE @]
    /\ since_attempt' = Elapse(since_attempt, slave_delay)
    /\ UNCHANGED <<lock, handler, http, alerts, stop_event, stats, client, is_connected, client_lock, bus,
                   dbVars>>

\* update_slave on a store whose devices all share one SiloStatus object.
UpdateCallSharedStatus(slave_id, value, error, updates) ==
    /\ UpdateCount < updates
    /\ silo_data' = [s \in Slaves |->
                        UpdatedStatus(silo_data[slave_id], value, error)]
    /\ history' = [history EXCEPT ![slave_id] =
                      UpdatedHistory(@, value, error)]
    /\ log' = [log EXCEPT !.last_update[slave_id] =
                             [ordinal |-> UpdateCount + 1,
                              slave_id |-> slave_id, value |-> value,
                              error |-> error]]
    /\ UNCHANGED <<lock, handler, http, alerts, stop_event, stats, busVars,
                   poll, write_queue, dbVars>>

\* update_slave(slave_id, value, error) called on its own, with the database
\* disabled; updates is the number of calls the run is followed for.
UpdateCall(slave_id, value, error, updates) ==
    /\ UpdateCount < updates
    /\ silo_data' = [silo_data EXCEPT ![slave_id] =
                        UpdatedStatus(@, value, error)]
    /\ history' = [history EXCEPT ![slave_id] =
                      UpdatedHistory(@, value, error)]
    /\ log' = [log EXCEPT !.last_update[slave_id] =
                             [ordinal |-> UpdateCount + 1,
                              slave_id |-> slave_id, value |-> value,
                              error |-> error]]
    /\ UNCHANGED <<lock, handler, http, alerts, stop_event, stats, busVars,
                   poll, write_queue, dbVars>>

\* ---------------------------------------------------- poller: polling_loop
\* The head of the while loop: a new cycle starts, or with stop_event set the
\* loop ends and the finally clause follows.
CycleBegin ==
    /\ poll.pc = "cycle"
    /\ IF stop_event
       THEN /\ poll' = [poll EXCEPT !.pc = "disconnect"]
            /\ UNCHANGED stats
       ELSE /\ stats' = [stats EXCEPT !.total_polls = @ + 1]
            /\ poll' = [poll EXCEPT !.pc = "slave", !.idx = 1, !.attempt = 0,
                                    !.successful_reads = 0]
    /\ UNCHANGED <<lock, handler, http, alerts, stop_event, storeVars, busVars, write_queue, dbVars, log>>

\* polling_loop going to the sleep without calling the alert manager.
SlaveLoopSkipsAlerts(updates) ==
    /\ poll.pc = "slave"
    /\ IF poll.idx <= Len(slaves) /\ ~stop_event
       THEN /\ UpdateCount < updates
            /\ poll' = [poll EXCEPT !.pc = "read1", !.attempt = 0]
            /\ UNCHANGED <<stats, since_attempt>>
       ELSE /\ stats' = [stats EXCEPT !.successful_polls =
                                          @ + poll.successful_reads]
            /\ poll' = [poll EXCEPT !.pc = "cycle"]
            /\ since_attempt' =
                  Elapse(since_attempt,
                         IF stop_event THEN 0 ELSE min_cycle_sleep)
    /\ UNCHANGED <<lock, handler, http, alerts, stop_event, storeVars, client,
                   is_connected, client_lock, bus, write_queue, dbVars, log>>

\* polling_loop without the stop_event test at the head of the for loop.
SlaveLoopIgnoresStop(updates) ==
    /\ poll.pc = "slave"
    /\ IF poll.idx <= Len(slaves)
       THEN /\ UpdateCount < updates
            /\ poll' = [poll EXCEPT !.pc = "read1", !.attempt = 0]
            /\ UNCHANGED <<stats, since_attempt>>
       ELSE /\ stats' = [stats EXCEPT !.successful_polls =
                                          @ + poll.successful_reads]
            /\ poll' = [poll EXCEPT !.pc = IF alerts.enabled THEN "alerts"
                                            ELSE "cycle"]
            /\ since_attempt' =
                  IF alerts.enabled THEN since_attempt
                  ELSE Elapse(since_attempt,
                              IF stop_event THEN 0 ELSE min_cycle_sleep)
    /\ UNCHANGED <<lock, handler, http, alerts, stop_event, storeVars, client,
                   is_connected, client_lock, bus, write_queue, dbVars, log>>

\* The head of the for loop: the next slave is read, or (after the last slave
\* or a break on stop_event) the cycle ends with successful_polls +=
\* successful_reads; with the alert manager enabled check_and_send_alerts
\* follows, otherwise stop_event.wait(sleep_time), which lasts at least 1 s
\* unless the event is set.  updates is the number of updates the run is
\* followed for.
SlaveLoop(updates) ==
    /\ poll.pc = "slave"
    /\ IF poll.idx <= Len(slaves) /\ ~stop_event
       THEN /\ UpdateCount < updates
            /\ poll' = [poll EXCEPT !.pc = "read1", !.attempt = 0]
            /\ UNCHANGED <<stats, since_attempt>>
       ELSE /\ stats' = [stats EXCEPT !.successful_polls =
                                          @ + poll.successful_reads]
            /\ poll' = [poll EXCEPT !.pc = IF alerts.enabled THEN "alerts"
                                            ELSE "cycle"]
            /\ since_attempt' =
                  IF alerts.enabled THEN since_attempt
                  ELSE Elapse(since_attempt,
                              IF stop_event THEN 0 ELSE min_cycle_sleep)
    /\ UNCHANGED <<lock, handler, http, alerts, stop_event, storeVars, client, is_connected, client_lock, bus,
                   write_queue, dbVars, log>>

\* ModbusPoller.disconnect, called from the finally clause of polling_loop:
\* under client_lock the handle is closed and is_connected cleared.
Disconnect ==
    /\ poll.pc = "disconnect"
    /\ client_lock = "free"
    /\ client' = IF client = "none" THEN "none" ELSE "closed"
    /\ is_connected' = FALSE
    /\ poll' = [poll EXCEPT !.pc = "done"]
    /\ UNCHANGED <<lock, handler, http, alerts, stop_event, storeVars, stats, client_lock, since_attempt,
                   bus, write_queue, dbVars, log>>

\* signal_handler on SIGINT / SIGTERM: stop_event.set().  (The handler goes on
\* to close the data manager and to end the process with sys.exit(0), which
\* cuts the run of the workers short.)
SignalHandler ==
    /\ ~stop_event
    /\ stop_event' = TRUE
    /\ UNCHANGED <<lock, handler, http, alerts, storeVars, stats, busVars, poll, write_queue, dbVars, log>>

\* The ordinals of a sequence of records.
Ordinals(records) == {records[k].update.ordinal : k \in 1..Len(records)}

\* send_critical_alert(message): with the alert manager enabled the message
\* goes to the chat transport, which delivers it or not; disabled, nothing is
\* sent.
SendCriticalAlert(delivered) ==
    IF alerts.enabled
    THEN [alerts EXCEPT !.sent =
             Append(@, [kind |-> "critical", slave_id |-> None, time |-> Now,
                        last_ok |-> None, delivered |-> delivered])]
    ELSE alerts

\* An exception leaves the body of the while loop of polling_loop: raised by
\* update_slave, by get_current_data or check_and_send_alerts, or by a
\* statement of the loop itself (read_slave catches its own exceptions).
PollerCrash ==
    /\ poll.pc \in {"update", "slave", "alerts", "sending"}
    /\ poll' = [poll EXCEPT !.pc = "except"]
    /\ log' = [log EXCEPT !.crashed = TRUE]
    /\ UNCHANGED <<lock, handler, http, alerts, stop_event, storeVars, stats,
                   busVars, write_queue, dbVars>>

\* The except clause of polling_loop: the error is logged and, with the
\* alert manager enabled, send_critical_alert("Loop polling crashato: ...")
\* is called; the finally clause (disconnect) follows.
ExceptClause(delivered) ==
    /\ poll.pc = "except"
    /\ alerts' = SendCriticalAlert(delivered)
    /\ poll' = [poll EXCEPT !.pc = "disconnect"]
    /\ UNCHANGED <<lock, handler, http, stop_event, storeVars, stats,
                   busVars, write_queue, dbVars, log>>

\* signal_handler, from its start to the join of DatabaseManager.close():
\* stop_event.set(), send_critical_alert("Sistema in shutdown") when the alert
\* manager is enabled, then data_manager.close(), which with a database manager
\* sets the manager's own stop_event and joins the writer thread; without one
\* the handler is at time.sleep(1).  The accepted records that are in the
\* queue or in the writer's batch at this moment are noted.
SignalHandlerClose(delivered) ==
    /\ handler = "idle"
    /\ stop_event' = TRUE
    /\ alerts' = SendCriticalAlert(delivered)
    /\ handler' = IF database_enabled THEN "join" ELSE "sleep"
    /\ log' = [log EXCEPT !.at_signal =
                  Ordinals(SelectSeq(write_queue \o writer.records_buffer,
                                     LAMBDA r : r.online /\ r.value # None))]
    /\ UNCHANGED <<lock, http, storeVars, stats, busVars, poll, write_queue,
                   dbVars>>

\* DatabaseManager.close() leaving the open transaction in place.
JoinReturnsKeepsTxn(timed_out) ==
    /\ handler = "join"
    /\ timed_out \/ writer.pc = "stopped"
    /\ connection' = "closed"
    /\ handler' = "sleep"
    /\ UNCHANGED <<lock, http, alerts, stop_event, storeVars, stats, busVars,
                   poll, write_queue, writer, txn, table, database_enabled,
                   log>>

\* DatabaseManager.close(), from the return of writer_thread.join(timeout=5)
\* (the writer has ended, or the five seconds are over) to its own return:
\* connection.close() ends the connection, and with it the transaction that
\* was open on it; the handler is then at time.sleep(1).
JoinReturns(timed_out) ==
    /\ handler = "join"
    /\ timed_out \/ writer.pc = "stopped"
    /\ connection' = "closed"
    /\ txn' = <<>>
    /\ handler' = "sleep"
    /\ UNCHANGED <<lock, http, alerts, stop_event, storeVars, stats, busVars,
                   poll, write_queue, writer, table, database_enabled, log>>

\* signal_handler after time.sleep(1): sys.exit(0) ends the process; the
\* polling thread and the writer thread are daemon threads, and neither is
\* joined here.
Exit ==
    /\ handler = "sleep"
    /\ handler' = "exited"
    /\ UNCHANGED <<lock, http, alerts, stop_event, storeVars, stats, busVars,
                   poll, write_queue, dbVars, log>>

\* The process has not ended: its threads can run.
Alive == handler # "exited"

\* ----------------------------------------------------------- alert manager
\* datetime.now(ZoneInfo("Europe/Rome")): an aware datetime, at the resolution
\* of one poll cycle.
DatetimeNow == [t |-> Now, tzinfo |-> TRUE]

\* datetime.fromisoformat(last_ok_str.replace('Z', '+00:00')) of the string
\* update_slave wrote with strftime("%Y-%m-%d %H:%M:%S"): no offset in the
\* text, so a naive datetime.
FromIsoFormat(last_ok_str) == [t |-> last_ok_str, tzinfo |-> FALSE]

\* a - b on datetimes raises TypeError when one is aware and the other naive.
RaisesTypeError(a, b) == a.tzinfo # b.tzinfo

\* check_and_send_alerts: is_offline_too_long of one device; the bare except
\* around the parse and the subtraction sets it to True.
IsOfflineTooLong(silo_status, current_time) ==
    IF ~silo_status.online /\ silo_status.last_ok # None
    THEN LET last_ok == FromIsoFormat(silo_status.last_ok)
         IN  IF RaisesTypeError(current_time, last_ok)
             THEN TRUE
             ELSE current_time.t - last_ok.t > offline_threshold
    ELSE ~silo_status.online /\ silo_status.last_ok = None

\* The devices check_and_send_alerts finds newly offline, and back online.
NewlyOffline ==
    {s \in Slaves : /\ IsOfflineTooLong(silo_data[s], DatetimeNow)
                    /\ s \notin alerts.currently_offline}

BackOnline ==
    {s \in Slaves : /\ s \notin NewlyOffline
                    /\ silo_data[s].online
                    /\ s \in alerts.currently_offline}

\* check_and_send_alerts that does not record the devices it alerts for.
CheckAndSendAlertsNoAdd ==
    /\ poll.pc = "alerts"
    /\ alerts' = [alerts EXCEPT
                    !.currently_offline = @ \ BackOnline,
                    !.last_alerts = [s \in Slaves |->
                                        IF s \in BackOnline THEN None ELSE @[s]],
                    !.newly_offline = NewlyOffline,
                    !.back_online = BackOnline,
                    !.evaluations = @ + 1]
    /\ poll' = [poll EXCEPT !.pc = "sending"]
    /\ UNCHANGED <<lock, handler, http, stop_event, storeVars, stats, busVars, write_queue, dbVars,
                   log>>

\* check_and_send_alerts that leaves a recovered device in currently_offline.
CheckAndSendAlertsNoDiscard ==
    /\ poll.pc = "alerts"
    /\ alerts' = [alerts EXCEPT
                    !.currently_offline = @ \cup NewlyOffline,
                    !.last_alerts = [s \in Slaves |->
                                        IF s \in BackOnline THEN None ELSE @[s]],
                    !.newly_offline = NewlyOffline,
                    !.back_online = BackOnline,
                    !.evaluations = @ + 1]
    /\ poll' = [poll EXCEPT !.pc = "sending"]
    /\ UNCHANGED <<lock, handler, http, stop_event, storeVars, stats, busVars, write_queue, dbVars,
                   log>>

\* check_and_send_alerts(get_current_data()), the part under self.lock: every
\* device is classified, currently_offline and last_alerts are updated, and
\* the two sets of notifications to send are built.
CheckAndSendAlerts ==
    /\ poll.pc = "alerts"
    /\ alerts' = [alerts EXCEPT
                    !.currently_offline = (@ \cup NewlyOffline) \ BackOnline,
                    !.last_alerts = [s \in Slaves |->
                                        IF s \in BackOnline THEN None ELSE @[s]],
                    !.newly_offline = NewlyOffline,
                    !.back_online = BackOnline,
                    !.evaluations = @ + 1]
    /\ poll' = [poll EXCEPT !.pc = "sending"]
    /\ UNCHANGED <<lock, handler, http, stop_event, storeVars, stats, busVars, write_queue, dbVars,
                   log>>

\* The notification built for a device, with the outcome of its dispatch.
Notification(kind, slave_id, delivered) ==
    [kind |-> kind, slave_id |-> slave_id, time |-> Now,
     last_ok |-> silo_data[slave_id].last_ok, delivered |-> delivered]

\* _send_offline_alert stamping last_alerts whatever the transport returned.
SendOfflineAlertAlwaysStamps(delivered) ==
    /\ poll.pc = "sending"
    /\ \E slave_id \in alerts.newly_offline :
          IF /\ alerts.last_alerts[slave_id] # None
             /\ Now - alerts.last_alerts[slave_id] < cooldown_period
          THEN alerts' = [alerts EXCEPT !.newly_offline = @ \ {slave_id}]
          ELSE alerts' = [alerts EXCEPT
                            !.newly_offline = @ \ {slave_id},
                            !.last_alerts[slave_id] = Now,
                            !.sent = Append(@, Notification("OFFLINE", slave_id,
                                                            delivered))]
    /\ UNCHANGED <<lock, handler, http, stop_event, storeVars, stats, busVars, poll, write_queue,
                   dbVars, log>>

\* One pass of "for slave_id in newly_offline: _send_offline_alert(...)":
\* inside the cooldown nothing is sent; otherwise the message goes to
\* _send_telegram_message, and last_alerts is stamped when that returns True
\* (delivered), not when it returns False (HTTP error or exception).
SendOfflineAlert(delivered) ==
    /\ poll.pc = "sending"
    /\ \E slave_id \in alerts.newly_offline :
          IF /\ alerts.last_alerts[slave_id] # None
             /\ Now - alerts.last_alerts[slave_id] < cooldown_period
          THEN alerts' = [alerts EXCEPT !.newly_offline = @ \ {slave_id}]
          ELSE alerts' = [alerts EXCEPT
                            !.newly_offline = @ \ {slave_id},
                            !.last_alerts[slave_id] =
                                IF delivered THEN Now ELSE @,
                            !.sent = Append(@, Notification("OFFLINE", slave_id,
                                                            delivered))]
    /\ UNCHANGED <<lock, handler, http, stop_event, storeVars, stats, busVars, poll, write_queue,
                   dbVars, log>>

\* One pass of "for slave_id in back_online: _send_online_alert(...)", after
\* the offline alerts.
SendOnlineAlert(delivered) ==
    /\ poll.pc = "sending"
    /\ alerts.newly_offline = {}
    /\ \E slave_id \in alerts.back_online :
          alerts' = [alerts EXCEPT
                       !.back_online = @ \ {slave_id},
                       !.sent = Append(@, Notification("RECOVERY", slave_id,
                                                       delivered))]
    /\ UNCHANGED <<lock, handler, http, stop_event, storeVars, stats, busVars, poll, write_queue,
                   dbVars, log>>

\* polling_loop after check_and_send_alerts returned:
\* stop_event.wait(sleep_time), then the head of the while loop.
CycleSleep ==
    /\ poll.pc = "sending"
    /\ alerts.newly_offline = {}
    /\ alerts.back_online = {}
    /\ poll' = [poll EXCEPT !.pc = "cycle"]
    /\ since_attempt' =
          Elapse(since_attempt, IF stop_event THEN 0 ELSE min_cycle_sleep)
    /\ UNCHANGED <<lock, handler, http, alerts, stop_event, storeVars, stats, client, is_connected,
                   client_lock, bus, write_queue, dbVars, log>>

\* ---------------------------------------------------------- batch writer
\* DatabaseManager.stop_event, set by DatabaseManager.close() and by nothing
\* else (the poller's stop_event is another object).
DbStopEvent == database_enabled /\ handler # "idle"

\* Where _batch_writer goes on at the head of its while loop.
WhileHead == IF DbStopEvent THEN "stopped" ELSE "accumulate"

\* The row INSERT INTO <table> (Cd_xMGSilo, Qta, ultimo_aggiornamento)
\* VALUES (?, ?, ?) writes for a record (with the record's history field).
Row(record) ==
    [Cd_xMGSilo |-> ErpCode(record.slave_id), Qta |-> record.value,
     ultimo_aggiornamento |-> record.timestamp, update |-> record.update]

\* _batch_writer putting the record it got in front of records_buffer.
WriterGetPrepend ==
    /\ writer.pc = "accumulate"
    /\ Len(writer.records_buffer) < batch_size
    /\ write_queue # <<>>
    /\ writer' = [writer EXCEPT
                    !.records_buffer = <<Head(write_queue)>> \o @]
    /\ write_queue' = Tail(write_queue)
    /\ UNCHANGED <<lock, handler, http, alerts, stop_event, storeVars, stats, busVars, poll,
                   database_enabled, connection, txn, table, log>>

\* _batch_writer: write_queue.get(timeout=1.0) while the buffer holds fewer
\* than batch_size records; the record goes to the end of records_buffer.
WriterGet ==
    /\ writer.pc = "accumulate"
    /\ Len(writer.records_buffer) < batch_size
    /\ write_queue # <<>>
    /\ writer' = [writer EXCEPT !.records_buffer = Append(@, Head(write_queue))]
    /\ write_queue' = Tail(write_queue)
    /\ UNCHANGED <<lock, handler, http, alerts, stop_event, storeVars, stats, busVars, poll, database_enabled, connection, txn, table, log>>

\* _batch_writer leaves the accumulation (batch full, or write_interval over)
\* with a non-empty buffer and calls _write_batch, which starts with
\* _get_connection() and conn.cursor().  A connection that fails its test is
\* reopened (reconnected says whether that works); when it cannot be reopened
\* _get_connection raises, the handler of _write_batch reads the unbound local
\* conn, and that exception leaves _write_batch: _batch_writer logs it and
\* sleeps, without reaching records_buffer.clear().
FlushBegin(reconnected) ==
    /\ writer.pc = "accumulate"
    /\ writer.records_buffer # <<>>
    /\ log' = [log EXCEPT
                 !.last_batch = Ordinals(writer.records_buffer),
                 !.handed = @ \cup Ordinals(writer.records_buffer),
                 !.rehanded = @ \cup (log.handed \cap
                                        Ordinals(writer.records_buffer))]
    /\ IF connection = "ok"
       THEN /\ writer' = [writer EXCEPT !.pc = "inserting", !.i = 1,
                                        !.successful_writes = 0, !.errors = 0]
            /\ UNCHANGED <<connection, txn>>
       ELSE IF reconnected
       THEN /\ connection' = "ok"
            /\ txn' = <<>>
            /\ writer' = [writer EXCEPT !.pc = "inserting", !.i = 1,
                                        !.successful_writes = 0, !.errors = 0]
       ELSE /\ writer' = [writer EXCEPT !.pc = "failed",
                                        !.last_flush = "raised"]
            /\ UNCHANGED <<connection, txn>>
    /\ UNCHANGED <<lock, handler, http, alerts, stop_event, storeVars, stats, busVars, poll, database_enabled, write_queue, table>>

\* _write_batch inserting every record, whatever its online flag.
InsertRecordUnfiltered(executed) ==
    /\ writer.pc = "inserting"
    /\ writer.i <= Len(writer.records_buffer)
    /\ LET record == writer.records_buffer[writer.i]
       IN  IF executed /\ connection = "ok"
           THEN /\ txn' = Append(txn, Row(record))
                /\ writer' = [writer EXCEPT !.i = @ + 1,
                                            !.successful_writes = @ + 1]
           ELSE /\ writer' = [writer EXCEPT !.i = @ + 1, !.errors = @ + 1]
                /\ UNCHANGED txn
    /\ UNCHANGED <<lock, handler, http, alerts, stop_event, storeVars, stats, busVars, poll,
                   database_enabled, write_queue, connection, table, log>>

\* _write_batch, one pass of the for loop: a record that is online and has a
\* value is inserted; an exception of cursor.execute (executed = FALSE, or a
\* lost connection) is caught and logged inside the loop; other records are
\* skipped.
InsertRecord(executed) ==
    /\ writer.pc = "inserting"
    /\ writer.i <= Len(writer.records_buffer)
    /\ LET record == writer.records_buffer[writer.i]
       IN  IF record.online /\ record.value # None
           THEN IF executed /\ connection = "ok"
                THEN /\ txn' = Append(txn, Row(record))
                     /\ writer' = [writer EXCEPT !.i = @ + 1,
                                                 !.successful_writes = @ + 1]
                ELSE /\ writer' = [writer EXCEPT !.i = @ + 1, !.errors = @ + 1]
                     /\ UNCHANGED txn
           ELSE /\ writer' = [writer EXCEPT !.i = @ + 1]
                /\ UNCHANGED txn
    /\ UNCHANGED <<lock, handler, http, alerts, stop_event, storeVars, stats, busVars, poll, database_enabled, write_queue, connection,
                   table, log>>

\* _write_batch keeping the inserted rows when conn.commit() raised.
CommitKeepsRows ==
    /\ writer.pc = "inserting"
    /\ writer.i > Len(writer.records_buffer)
    /\ table' = table \o txn
    /\ writer' = [writer EXCEPT !.pc = WhileHead, !.records_buffer = <<>>,
                                !.last_flush = IF connection = "ok"
                                               THEN "committed"
                                               ELSE "rolled_back"]
    /\ txn' = <<>>
    /\ UNCHANGED <<lock, handler, http, alerts, stop_event, storeVars, stats, busVars, poll,
                   database_enabled, write_queue, connection, log>>

\* _write_batch after the for loop: conn.commit() makes the inserted rows
\* permanent; on a lost connection it raises and the handler rolls back.
\* _batch_writer then clears records_buffer.
Commit ==
    /\ writer.pc = "inserting"
    /\ writer.i > Len(writer.records_buffer)
    /\ IF connection = "ok"
       THEN /\ table' = table \o txn
            /\ writer' = [writer EXCEPT !.pc = WhileHead,
                                        !.records_buffer = <<>>,
                                        !.last_flush = "committed"]
       ELSE /\ table' = table
            /\ writer' = [writer EXCEPT !.pc = WhileHead,
                                        !.records_buffer = <<>>,
                                        !.last_flush = "rolled_back"]
    /\ txn' = <<>>
    /\ UNCHANGED <<lock, handler, http, alerts, stop_event, storeVars, stats, busVars, poll, database_enabled, write_queue, connection, log>>

\* _batch_writer after an exception that left _write_batch: time.sleep(5),
\* then the while loop goes on.
WriterResume ==
    /\ writer.pc = "failed"
    /\ writer' = [writer EXCEPT !.pc = WhileHead]
    /\ UNCHANGED <<lock, handler, http, alerts, stop_event, storeVars, stats, busVars, poll, database_enabled, write_queue, connection,
                   txn, table, log>>

\* _batch_writer leaving the accumulation with an empty buffer (write_interval
\* is over and nothing arrived): back at the head of the while loop, it ends
\* when the manager's stop_event is set.
WriterStop ==
    /\ writer.pc = "accumulate"
    /\ writer.records_buffer = <<>>
    /\ DbStopEvent
    /\ writer' = [writer EXCEPT !.pc = "stopped"]
    /\ UNCHANGED <<lock, handler, http, alerts, stop_event, storeVars, stats,
                   busVars, poll, database_enabled, write_queue, connection,
                   txn, table, log>>

\* The database server or the network drops the connection: statements on it
\* fail from now on (_test_connection, cursor.execute, conn.commit), so what
\* the open transaction inserted is never committed.
ConnectionLost ==
    /\ connection = "ok"
    /\ connection' = "broken"
    /\ UNCHANGED <<lock, handler, http, alerts, stop_event, storeVars, stats, busVars, poll,
                   database_enabled, write_queue, writer, txn, table, log>>

\* -------------------------------------------------------------- HTTP worker
\* An HTTP worker of the Flask application between two requests: no database
\* cursor, no query result, no snapshot in its hands.
IdleWorker == [pc |-> "idle", conn |-> "none", rows |-> {}, snapshot |-> <<>>]

\* No snapshot returned yet.
NoSnapshot == [taken |-> FALSE, updates |-> 0, fields |-> <<>>,
               modified |-> FALSE]

\* The rows SELECT Cd_xMGSilo, Qta, ultimo_aggiornamento ... WHERE Cd_xMGSilo
\* = ? finds for a slave on the manager's connection: the committed rows and
\* the rows inserted by the transaction that is open on that connection.
SelectRows(slave_id) ==
    Ordinals(SelectSeq(table \o txn,
                       LAMBDA row : row.Cd_xMGSilo = ErpCode(slave_id)))

\* /api/history/<slave_id> with the database enabled, or /api/database:
\* get_recent_data up to cursor.execute(sql, ...).  conn is what
\* _get_connection() returns, the manager's one connection (reopened when it
\* fails its test; when that fails too the exception is caught and [] is
\* returned); the SELECT is executing on it.
GetRecentData(slave_id, reconnected) ==
    /\ http.pc = "idle"
    /\ database_enabled
    /\ IF connection = "ok"
       THEN /\ http' = [http EXCEPT !.pc = "executing", !.conn = "manager",
                                    !.rows = SelectRows(slave_id)]
            /\ UNCHANGED <<connection, txn>>
       ELSE IF reconnected
       THEN /\ connection' = "ok"
            /\ txn' = <<>>
            /\ http' = [http EXCEPT !.pc = "executing", !.conn = "manager",
                                    !.rows = Ordinals(table)]
       ELSE /\ http' = [http EXCEPT !.rows = {}]
            /\ UNCHANGED <<connection, txn>>
    /\ UNCHANGED <<lock, handler, alerts, stop_event, storeVars, stats,
                   busVars, poll, write_queue, writer, table,
                   database_enabled, log>>

\* get_recent_data from cursor.fetchmany(limit) to its return: the cursor is
\* closed and the rows go to the client.
GetRecentDataReturn ==
    /\ http.pc = "executing"
    /\ http' = [http EXCEPT !.pc = "idle", !.conn = "none"]
    /\ UNCHANGED <<lock, handler, alerts, stop_event, storeVars, stats,
                   busVars, poll, write_queue, dbVars, log>>

\* update_slave(slave_id, value, error) called on its own, with the database
\* disabled, from the entry of "with self.lock" to silo.total_reads += 1.
UpdateSlaveEnter(slave_id, value, error, updates) ==
    /\ poll.pc = "start"
    /\ lock = "free"
    /\ UpdateCount < updates
    /\ lock' = "poller"
    /\ silo_data' = [silo_data EXCEPT ![slave_id].total_reads = @ + 1]
    /\ poll' = [poll EXCEPT !.pc = "locked", !.idx = slave_id,
                            !.value = value, !.error = error]
    /\ UNCHANGED <<handler, http, alerts, stop_event, history, stats, busVars,
                   write_queue, dbVars, log>>

\* update_slave from the validation to the end of "with self.lock": the other
\* fields of the SiloStatus and the history ring are assigned and the lock is
\* released.  The record it leaves is a version of the device's record.
UpdateSlaveLeave ==
    /\ poll.pc = "locked"
    /\ LET slave_id == poll.idx
           status == UpdatedStatus([silo_data[slave_id] EXCEPT
                                      !.total_reads = @ - 1],
                                   poll.value, poll.error)
       IN  /\ silo_data' = [silo_data EXCEPT ![slave_id] = status]
           /\ history' = [history EXCEPT ![slave_id] =
                             UpdatedHistory(@, poll.value, poll.error)]
           /\ log' = [log EXCEPT
                        !.last_update[slave_id] =
                            [ordinal |-> UpdateCount, slave_id |-> slave_id,
                             value |-> poll.value, error |-> poll.error],
                        !.versions[slave_id] = @ \cup {status}]
    /\ lock' = "free"
    /\ poll' = [poll EXCEPT !.pc = "start", !.idx = 1, !.value = None,
                            !.error = NoError]
    /\ UNCHANGED <<handler, http, alerts, stop_event, stats, busVars,
                   write_queue, dbVars>>

\* get_current_data entering the dict comprehension without taking the lock.
GetCurrentDataUnlocked ==
    /\ http.pc = "idle"
    /\ http' = [http EXCEPT !.pc = "copying", !.snapshot = <<>>]
    /\ UNCHANGED <<lock, handler, alerts, stop_event, storeVars, stats,
                   busVars, poll, write_queue, dbVars, log>>

\* /api/data (or /): get_current_data enters "with self.lock".
GetCurrentData ==
    /\ http.pc = "idle"
    /\ lock = "free"
    /\ lock' = "http"
    /\ http' = [http EXCEPT !.pc = "copying", !.snapshot = <<>>]
    /\ UNCHANGED <<handler, alerts, stop_event, storeVars, stats, busVars,
                   poll, write_queue, dbVars, log>>

\* A dict that is the SiloStatus object of the store itself, not a copy.
AsDictReference(slave_id) == [obj |-> "store", fields |-> silo_data[slave_id]]

\* asdict(silo): a new dict with the values of the fields of the SiloStatus.
AsDict(slave_id) == [obj |-> "copy", fields |-> silo_data[slave_id]]

\* One step of the dict comprehension of get_current_data: the next device of
\* silo_data.items(), in the order of the configured list.
CopyNext ==
    /\ http.pc = "copying"
    /\ Len(http.snapshot) < Len(slaves)
    /\ http' = [http EXCEPT !.snapshot =
                   Append(@, AsDict(slaves[Len(http.snapshot) + 1]))]
    /\ UNCHANGED <<lock, handler, alerts, stop_event, storeVars, stats,
                   busVars, poll, write_queue, dbVars, log>>

\* get_current_data returns the dict and leaves "with self.lock".  The
\* snapshot, as returned, is remembered next to the one before it.
GetCurrentDataReturn ==
    /\ http.pc = "copying"
    /\ Len(http.snapshot) = Len(slaves)
    /\ lock' = IF lock = "http" THEN "free" ELSE lock
    /\ http' = [http EXCEPT !.pc = "returned"]
    /\ log' = [log EXCEPT
                 !.prev = log.last,
                 !.last = [taken |-> TRUE, updates |-> UpdateCount,
                           fields |-> [k \in 1..Len(slaves) |->
                                          http.snapshot[k].fields],
                           modified |-> FALSE]]
    /\ UNCHANGED <<handler, alerts, stop_event, storeVars, stats, busVars,
                   poll, write_queue, dbVars>>

\* The caller of get_current_data assigns to the "value" key of one dict of
\* the map it got; when that dict is an object of the store, the store has
\* the new value too.
ModifySnapshot(k, v) ==
    /\ http.pc = "returned"
    /\ http' = [http EXCEPT !.snapshot[k].fields.value = v]
    /\ silo_data' = IF http.snapshot[k].obj = "store"
                    THEN [silo_data EXCEPT ![slaves[k]].value = v]
                    ELSE silo_data
    /\ log' = [log EXCEPT !.last.modified = TRUE]
    /\ UNCHANGED <<lock, handler, alerts, stop_event, history, stats, busVars,
                   poll, write_queue, dbVars>>

\* The request is answered: the worker lets go of the snapshot.
SnapshotDropped ==
    /\ http.pc = "returned"
    /\ http' = IdleWorker
    /\ UNCHANGED <<lock, handler, alerts, stop_event, storeVars, stats,
                   busVars, poll, write_queue, dbVars, log>>

\* ------------------------------------------------------------ specification
\* The state after SiloDataManager(config) and ModbusPoller(config,
\* data_manager); with database.enabled the DatabaseManager is connected and
\* its writer thread started; with alerts.enabled (and the Telegram test
\* passed) the alert manager is enabled.
StartWith(enabled, alerting) ==
    /\ silo_data = [s \in Slaves |-> SiloStatus]
    /\ history = [s \in Slaves |-> <<>>]
    /\ stats = [total_polls |-> 0, successful_polls |-> 0]
    /\ client = "none"
    /\ is_connected = FALSE
    /\ client_lock = "free"
    /\ since_attempt = connection_timeout
    /\ bus = [transaction |-> 0, connect |-> 0]
    /\ stop_event = FALSE
    /\ poll = [pc |-> "start", site |-> "start", idx |-> 1, attempt |-> 0,
               value |-> None, error |-> NoError, successful_reads |-> 0]
    /\ write_queue = <<>>
    /\ writer = [pc |-> "accumulate", records_buffer |-> <<>>, i |-> 1,
                 successful_writes |-> 0, errors |-> 0, last_flush |-> "none"]
    /\ connection = "ok"
    /\ txn = <<>>
    /\ table = <<>>
    /\ database_enabled = enabled
    /\ alerts = [enabled |-> alerting, currently_offline |-> {},
                 last_alerts |-> [s \in Slaves |-> None],
                 newly_offline |-> {}, back_online |-> {}, sent |-> <<>>,
                 evaluations |-> 0]
    /\ lock = "free"
    /\ handler = "idle"
    /\ http = IdleWorker
    /\ log = [last_update |-> [s \in Slaves |->
                                [ordinal |-> 0, slave_id |-> s, value |-> None,
                                 error |-> NoError]],
              queue_full |-> 0, last_batch |-> {}, handed |-> {},
              rehanded |-> {}, txns |-> 0, response |-> NoResponse,
              at_signal |-> {},
              versions |-> [s \in Slaves |-> {SiloStatus}],
              last |-> NoSnapshot, prev |-> NoSnapshot, crashed |-> FALSE]

\* The state after construction with the alert manager disabled.
Start(enabled) == StartWith(enabled, FALSE)

\* The polling worker, followed for a number of updates, on a serial port
\* whose opening ends with one of connects and devices that answer a
\* transaction with one of responses.
Poller(updates, connects, responses) ==
    \/ EnsureConnection
    \/ \E ok \in connects : ConnectReturns(ok)
    \/ CycleBegin
    \/ SlaveLoop(updates)
    \/ TxnBegin
    \/ \E resp \in responses, d \in TxnDurations, closed \in BOOLEAN :
          TxnEnd(resp, d, closed)
    \/ UpdateSlave
    \/ Disconnect

\* The batch writer worker and its database.
Writer ==
    \/ WriterGet
    \/ \E reconnected \in BOOLEAN : FlushBegin(reconnected)
    \/ \E executed \in BOOLEAN : InsertRecord(executed)
    \/ Commit
    \/ WriterResume
    \/ ConnectionLost

\* Polling with the database disabled: the bus, the reader and the state store.
Init == Start(FALSE)

Next == Poller(MaxUpdates, BOOLEAN, Responses) \/ SignalHandler

Spec == Init /\ [][Next]_vars

\* Polling with the database enabled, next to the batch writer: the devices
\* answer with a register or with a Modbus exception response.
PersistResponses == {r \in Responses : r.kind \in {"registers", "isError"}}

InitPersist == Start(TRUE)

NextPersist ==
    Poller(PersistUpdates, BOOLEAN, PersistResponses) \/ Writer \/ SignalHandler

SpecPersist == InitPersist /\ [][NextPersist]_vars

\* Polling with the database enabled while the batch writer is stalled (it
\* takes nothing from the queue): the port opens and every device answers
\* with the same register, so that the queue fills with accepted records.
QueueResponses == {[kind |-> "registers", value |-> max_value]}

NextQueue == Poller(QueueUpdates, {TRUE}, QueueResponses) \/ SignalHandler

SpecQueue == InitPersist /\ [][NextQueue]_vars

\* The alert manager, called by the polling worker at the end of a cycle; a
\* message to the chat transport is delivered or not.
Alerts ==
    \/ CheckAndSendAlerts
    \/ \E delivered \in BOOLEAN : SendOfflineAlert(delivered)
    \/ \E delivered \in BOOLEAN : SendOnlineAlert(delivered)
    \/ CycleSleep

\* Polling with the alert manager enabled and the database disabled: the port
\* opens, and every device answers with an in-range register or with one
\* above max_value.  The polling worker is scheduled as long as it can take a
\* step.
AlertResponses ==
    {r \in Responses : r.kind = "registers" /\ r.value \in {max_value, 28001}}

InitAlerts == StartWith(FALSE, TRUE)

NextAlerts ==
    Poller(AlertUpdates, {TRUE}, AlertResponses) \/ Alerts \/ SignalHandler

SpecAlerts ==
    /\ InitAlerts
    /\ [][NextAlerts]_vars
    /\ WF_vars(Poller(AlertUpdates, {TRUE}, AlertResponses) \/ Alerts)

\* The shutdown: the signal handler runs to sys.exit(0) next to the polling
\* worker and the batch writer, with the database enabled and available (the
\* connection is not lost, a reconnection works and every INSERT executes);
\* the port opens, and a device answers with an in-range register or not at
\* all.  When the process has ended no thread takes a step.
ShutdownResponses ==
    {r \in Responses : \/ r.kind = "registers" /\ r.value = max_value
                       \/ r.kind = "exc_io"}

WriterAvailable ==
    \/ WriterGet
    \/ FlushBegin(TRUE)
    \/ InsertRecord(TRUE)
    \/ Commit
    \/ WriterStop

NextShutdown ==
    \/ Alive /\ Poller(ShutdownUpdates, {TRUE}, ShutdownResponses)
    \/ Alive /\ WriterAvailable
    \/ \E delivered \in BOOLEAN : SignalHandlerClose(delivered)
    \/ \E timed_out \in BOOLEAN : JoinReturns(timed_out)
    \/ Exit

SpecShutdown == InitPersist /\ [][NextShutdown]_vars

\* History reads next to the batch writer: an HTTP worker serves
\* /api/history and /api/database while the polling worker queues accepted
\* readings and the writer flushes them; the port opens and every device
\* answers with the same register.
HistoryRead ==
    \/ \E slave_id \in Slaves, reconnected \in BOOLEAN :
          GetRecentData(slave_id, reconnected)
    \/ GetRecentDataReturn

NextHistory ==
    \/ Poller(HistoryUpdates, {TRUE}, QueueResponses)
    \/ Writer
    \/ HistoryRead
    \/ SignalHandler

SpecHistory == InitPersist /\ [][NextHistory]_vars

\* Polling over several cycles with the database disabled, so that a history
\* ring fills and overflows: the port opens and every device answers with a
\* register, in range or above max_value.
RingResponses == {r \in Responses : r.kind = "registers"}

NextRing == Poller(RingUpdates, {TRUE}, RingResponses) \/ SignalHandler

SpecRing == Init /\ [][NextRing]_vars

\* A crash of the polling loop, with the alert manager enabled and the
\* database disabled: at some point an exception leaves the loop body.  No
\* signal arrives.  The polling worker is scheduled as long as it can take a
\* step; the main thread stays in app.run().
CrashedPoller ==
    \/ Poller(CrashUpdates, {TRUE}, AlertResponses)
    \/ Alerts
    \/ \E delivered \in BOOLEAN : ExceptClause(delivered)

NextCrash == CrashedPoller \/ PollerCrash

SpecCrash ==
    /\ InitAlerts
    /\ [][NextCrash]_vars
    /\ WF_vars(CrashedPoller)

\* The state store on its own: update_slave is called for any slave with a
\* value around the limits of the validation range (below min_value, min_value,
\* a value inside, max_value, max_value + 1) or with a read error.
StoreValues == {0 - 2, min_value, 8120, max_value, max_value + 1}

StoreInputs ==
    [value : StoreValues, error : {NoError}]
    \cup [value : {None}, error : {ErrExhausted}]

NextStore ==
    \E slave_id \in Slaves, input \in StoreInputs :
        UpdateCall(slave_id, input.value, input.error, StoreUpdates)

SpecStore == Init /\ [][NextStore]_vars

\* Snapshots next to updates: update_slave is called for any slave with a
\* value or an error while an HTTP worker serves /api/data, and the caller of
\* get_current_data may write to the map it got.
Snapshot ==
    \/ GetCurrentData
    \/ CopyNext
    \/ GetCurrentDataReturn
    \/ \E k \in 1..Len(slaves) : ModifySnapshot(k, max_value + 1)
    \/ SnapshotDropped

NextSnapshot ==
    \/ \E slave_id \in Slaves, input \in StoreInputs :
          UpdateSlaveEnter(slave_id, input.value, input.error,
                           SnapshotUpdates)
    \/ UpdateSlaveLeave
    \/ Snapshot

SpecSnapshot == Init /\ [][NextSnapshot]_vars

\* Polling with the database disabled, where the polling worker is scheduled
\* as long as it can take a step.
NextRead == Poller(ReadUpdates, BOOLEAN, Responses) \/ SignalHandler

SpecRead ==
    /\ Init
    /\ [][NextRead]_vars
    /\ WF_vars(Poller(ReadUpdates, BOOLEAN, Responses))

\* ================================================================== claims
\* The step of the polling worker that is the call update_slave(s, ...).
UpdateOf(s) == poll.pc = "update" /\ poll'.pc = "slave" /\ slaves[poll.idx] = s

\* C1: at most one operation (a read_holding_registers transaction, or the
\* close and connect of ensure_connection) is in progress on the serial handle
\* in any reachable state, and whichever is in progress runs with client_lock
\* held; disconnect closes the handle only with the lock free of any of them.
C1_BusSerialized ==
    /\ bus.transaction + bus.connect <= 1
    /\ (bus.transaction + bus.connect = 1 <=> client_lock = "poller")
    /\ (poll.pc = "done" => bus.transaction + bus.connect = 0)

\* C1 witness: a transaction is in flight on a reopened handle, after an
\* earlier read has already been recorded.
C1_Witness ==
    /\ bus.transaction = 1
    /\ since_attempt < connection_timeout
    /\ \E s \in Slaves : silo_data[s].total_reads > 0

\* C2: for every slave error_count <= total_reads in every reachable state;
\* the step update_slave(s, ...) adds exactly 1 to total_reads of s and 0 or 1
\* to its error_count, and no other step changes either counter.
C2_Counters ==
    /\ [](\A s \in Slaves : silo_data[s].error_count <= silo_data[s].total_reads)
    /\ [][\A s \in Slaves :
            IF UpdateOf(s)
            THEN /\ silo_data'[s].total_reads = silo_data[s].total_reads + 1
                 /\ silo_data'[s].error_count - silo_data[s].error_count
                       \in {0, 1}
            ELSE /\ silo_data'[s].total_reads = silo_data[s].total_reads
                 /\ silo_data'[s].error_count = silo_data[s].error_count]_vars

\* C2 witness: a slave with one failed and one accepted read.
C2_Witness ==
    \E s \in Slaves :
        silo_data[s].total_reads = 2 /\ silo_data[s].error_count = 1

\* C3: in every reachable state a slave that is online has a value, and the
\* value lies in [min_value, max_value].
C3_OnlineInRange ==
    \A s \in Slaves :
        silo_data[s].online =>
            /\ silo_data[s].value # None
            /\ min_value <= silo_data[s].value
            /\ silo_data[s].value <= max_value

\* C3 witness: a slave is online with the value max_value after the devices
\* have also answered with a value above max_value.
C3_Witness ==
    \E s, t \in Slaves :
        /\ silo_data[s].online /\ silo_data[s].value = max_value
        /\ log.last_update[t].value > max_value

\* C4: a slave that was never updated is not online, and a slave that was
\* updated is online exactly when its most recent update carried no error and
\* a value in [min_value, max_value].
C4_OnlineIffLastAccepted ==
    \A s \in Slaves :
        IF silo_data[s].total_reads = 0
        THEN ~silo_data[s].online
        ELSE silo_data[s].online <=>
                /\ log.last_update[s].error = NoError
                /\ min_value <= log.last_update[s].value
                /\ log.last_update[s].value <= max_value

\* C4 witness: a slave that was online is offline again after a read error,
\* still holding the value accepted before.
C4_Witness ==
    \E s \in Slaves :
        /\ silo_data[s].total_reads = 2
        /\ ~silo_data[s].online
        /\ silo_data[s].value # None
        /\ log.last_update[s].error \notin {NoError}

\* The external codes of the configured slaves.
ExternalCode == <<"S01", "S02">>

\* The rows inserted so far, in the order of their INSERT: the committed ones,
\* then those of the open transaction.
InsertedRows == table \o txn

\* C5: every row the batch writer inserted comes from an update that had no
\* read error and a value in [min_value, max_value], and holds that update's
\* value and the external code of the update's slave.
C5_OnlyAcceptedRows ==
    \A k \in 1..Len(InsertedRows) :
        LET row == InsertedRows[k]
        IN  /\ row.update.error = NoError
            /\ min_value <= row.update.value
            /\ row.update.value <= max_value
            /\ row.Qta = row.update.value
            /\ row.Cd_xMGSilo = ExternalCode[row.update.slave_id]

\* C5 witness: a row is committed, and the writer has also been handed the
\* record of a rejected update.
C5_Witness ==
    /\ table # <<>>
    /\ \E s \in Slaves :
          /\ log.last_update[s].error # NoError
          /\ log.last_update[s].ordinal \in log.handed

C7_BoundedQueueDropsNewest ==
    /\ [](Len(write_queue) <= 1000)
    /\ [][\A s \in Slaves :
            IF UpdateOf(s) /\ Len(write_queue) = 1000
            THEN /\ write_queue' = write_queue
                 /\ log'.queue_full = log.queue_full + 1
                 /\ silo_data'[s].total_reads = silo_data[s].total_reads + 1
                 /\ poll'.idx = poll.idx + 1
            ELSE (\E t \in Slaves : UpdateOf(t) /\ Len(write_queue) = 1000)
                 \/ log'.queue_full = log.queue_full]_vars

\* C7 witness: a record was dropped on a full queue.
C7_Witness == Len(write_queue) = 1000 /\ log.queue_full = 1

\* C8: the rows are inserted in the order in which their records were
\* enqueued, within a batch and across batches.
C8_InsertOrder ==
    \A j, k \in 1..Len(InsertedRows) :
        j < k => InsertedRows[j].update.ordinal < InsertedRows[k].update.ordinal

\* C8 witness: two rows are committed.
C8_Witness == Len(table) = 2 /\ writer.last_flush = "committed"

\* The committed rows that come from the batch of the last flush.
RowsOfLastBatch ==
    {k \in 1..Len(table) : table[k].update.ordinal \in log.last_batch}

C10_FailedBatchDropped ==
    /\ log.rehanded = {}
    /\ writer.pc = "failed" => writer.records_buffer = <<>>

\* The step of the polling worker that is a call of ensure_connection.
EnsureCall == poll.pc \in {"start", "read1", "read2"} /\ poll' # poll

C12_ErrorResetsWindow ==
    (/\ poll.pc \in {"read1", "read2"}
     /\ ~is_connected
     /\ client = "open")
    => since_attempt >= connection_timeout

\* C13 as stated: a read whose attempt ended with a transport error goes on
\* to the next attempt while attempts are left, so a read that returns an
\* error after a bus transaction has used all max_retries transactions.
C13_TransientRetried ==
    (poll.pc = "update" /\ poll.error # NoError /\ log.txns >= 1)
    => log.txns = max_retries

\* C14: a read_slave call issues at most max_retries (3) bus transactions and
\* returns either a value without error or no value with an error text; a
\* returned value is the register of the last response, whatever its range;
\* and every call that has started returns.
C14_ReadReturns ==
    /\ [](log.txns <= 3)
    /\ [](poll.pc = "update" =>
            \/ /\ poll.error = NoError
               /\ log.response.kind = "registers"
               /\ poll.value = log.response.value
               /\ poll.value # None
            \/ /\ poll.error \in {ErrUnavailable, ErrLost, ErrModbus,
                                  ErrExhausted}
               /\ poll.value = None)
    /\ (poll.pc = "read1" ~> poll.pc = "update")

\* C14 witness: the third transaction of a read is answered with a register
\* above max_value, and the read returns it.
C14_Witness ==
    /\ poll.pc = "update"
    /\ log.txns = 3
    /\ poll.error = NoError
    /\ poll.value = 28001

\* C15 as stated: a device is recorded without a bus transaction issued for
\* it only when the serial port could not be opened, never while the handle
\* of the last successful open is still in place (the adapter was marked
\* disconnected by the failed read of a device polled before).
C15_FailuresLocalized ==
    (poll.pc = "update" /\ log.txns = 0) => client # "open"

\* The positions in the history of dispatched notifications of those of one
\* kind for one device.
Sent(kind, s) ==
    {k \in 1..Len(alerts.sent) :
        alerts.sent[k].kind = kind /\ alerts.sent[k].slave_id = s}

\* The step of the polling worker that is the locked part of
\* check_and_send_alerts.
Evaluation == poll.pc = "alerts" /\ poll'.pc = "sending"

\* C16 as stated: a device is added to currently_offline, and an OFFLINE
\* notification dispatched for it, only if it has never had an accepted
\* reading or its last accepted reading is more than offline_threshold old at
\* the evaluation.
C16_Debounced ==
    /\ \A k \in 1..Len(alerts.sent) :
          alerts.sent[k].kind = "OFFLINE" =>
              \/ alerts.sent[k].last_ok = None
              \/ alerts.sent[k].time - alerts.sent[k].last_ok > offline_threshold
    /\ poll.pc = "sending" =>
          \A s \in alerts.newly_offline :
              \/ silo_data[s].last_ok = None
              \/ Now - silo_data[s].last_ok > offline_threshold

\* C17 as stated: two delivered OFFLINE notifications for the same device are
\* at least cooldown_period apart.
C17_Cooldown ==
    \A s \in Slaves : \A j, k \in Sent("OFFLINE", s) :
        (j < k /\ alerts.sent[j].delivered /\ alerts.sent[k].delivered)
        => alerts.sent[k].time - alerts.sent[j].time >= cooldown_period

\* C18: the evaluation that finds a device offline too long and not in
\* currently_offline adds it to currently_offline and an OFFLINE notification
\* is dispatched for it in that evaluation; an evaluation that finds the
\* device in currently_offline and not online keeps it there and sends
\* nothing; so between two OFFLINE notifications for a device there is a
\* RECOVERY for it.
C18_OneOfflinePerOutage ==
    /\ [][Evaluation =>
            \A s \in Slaves :
                /\ (s \in alerts'.newly_offline) =
                      (/\ IsOfflineTooLong(silo_data[s], DatetimeNow)
                       /\ s \notin alerts.currently_offline)
                /\ s \in alerts'.newly_offline =>
                      s \in alerts'.currently_offline
                /\ (s \in alerts.currently_offline /\ ~silo_data[s].online) =>
                      /\ s \in alerts'.currently_offline
                      /\ s \notin alerts'.newly_offline]_vars
    /\ [][\A s \in Slaves :
            (s \in alerts.newly_offline /\ s \notin alerts'.newly_offline) =>
                /\ Len(alerts'.sent) = Len(alerts.sent) + 1
                /\ alerts'.sent[Len(alerts'.sent)].kind = "OFFLINE"
                /\ alerts'.sent[Len(alerts'.sent)].slave_id = s]_vars
    /\ [](\A s \in Slaves : \A j, k \in Sent("OFFLINE", s) :
            j < k => \E m \in Sent("RECOVERY", s) : j < m /\ m < k)
    /\ [](poll.pc \notin {"alerts", "sending"} => alerts.newly_offline = {})

\* C18 witness: device 1 has failed in each of three cycles, three
\* evaluations are over, and one OFFLINE notification was dispatched for it.
C18_Witness ==
    /\ poll.pc = "cycle"
    /\ stats.total_polls = 3
    /\ silo_data[1].error_count = 3
    /\ 1 \in alerts.currently_offline
    /\ Cardinality(Sent("OFFLINE", 1)) = 1

\* C19: the evaluation that sees a device of currently_offline online removes
\* it from currently_offline, clears its last_alerts entry and dispatches one
\* RECOVERY notification for it in that evaluation; RECOVERY is dispatched
\* for no other device, so every RECOVERY follows an OFFLINE for the device
\* with no other RECOVERY for it in between.
C19_OneRecovery ==
    /\ [][Evaluation =>
            \A s \in Slaves :
                /\ (s \in alerts'.back_online) =
                      (silo_data[s].online /\ s \in alerts.currently_offline)
                /\ s \in alerts'.back_online =>
                      /\ s \notin alerts'.currently_offline
                      /\ alerts'.last_alerts[s] = None]_vars
    /\ [][\A s \in Slaves :
            (s \in alerts.back_online /\ s \notin alerts'.back_online) =>
                /\ Len(alerts'.sent) = Len(alerts.sent) + 1
                /\ alerts'.sent[Len(alerts'.sent)].kind = "RECOVERY"
                /\ alerts'.sent[Len(alerts'.sent)].slave_id = s]_vars
    /\ [](\A s \in Slaves : \A k \in Sent("RECOVERY", s) :
            \E j \in Sent("OFFLINE", s) :
                /\ j < k
                /\ \A m \in Sent("RECOVERY", s) : ~(j < m /\ m < k))
    /\ [](poll.pc \notin {"alerts", "sending"} => alerts.back_online = {})

\* C19 witness: an OFFLINE notification for device 1 was delivered, then the
\* device was seen online and its RECOVERY dispatched.
C19_Witness ==
    /\ poll.pc = "cycle"
    /\ silo_data[1].online
    /\ 1 \notin alerts.currently_offline
    /\ alerts.last_alerts[1] = None
    /\ \E j \in Sent("OFFLINE", 1), k \in Sent("RECOVERY", 1) :
          j < k /\ alerts.sent[j].delivered

\* C20: a notification the chat transport failed to deliver is dropped: the
\* step leaves currently_offline and last_alerts as the evaluation set them
\* and takes the device off the pending set, no notification is dispatched
\* twice, last_alerts holds only the time of a delivered OFFLINE, and the
\* polling worker goes on to the sleep and the head of the next cycle.
C20_FailedSendDropped ==
    /\ [][(/\ Len(alerts'.sent) = Len(alerts.sent) + 1
           /\ ~alerts'.sent[Len(alerts'.sent)].delivered)
          => /\ alerts'.currently_offline = alerts.currently_offline
             /\ alerts'.last_alerts = alerts.last_alerts
             /\ Cardinality(alerts'.newly_offline \cup alerts'.back_online) + 1
                = Cardinality(alerts.newly_offline \cup alerts.back_online)
             /\ poll' = poll]_vars
    /\ [](\A j, k \in 1..Len(alerts.sent) :
            (/\ j < k
             /\ alerts.sent[j].kind = alerts.sent[k].kind
             /\ alerts.sent[j].slave_id = alerts.sent[k].slave_id)
            => alerts.sent[j].time < alerts.sent[k].time)
    /\ [](\A s \in Slaves :
            alerts.last_alerts[s] # None =>
                \E k \in Sent("OFFLINE", s) :
                    /\ alerts.sent[k].delivered
                    /\ alerts.sent[k].time = alerts.last_alerts[s])
    /\ (poll.pc = "sending" ~> poll.pc = "cycle")

\* C20 witness: the OFFLINE notification for device 1 was not delivered, the
\* device is in currently_offline without a last_alerts entry, and the next
\* cycle has recorded a read of it.
C20_Witness ==
    /\ \E k \in Sent("OFFLINE", 1) :
          /\ ~alerts.sent[k].delivered
          /\ stats.total_polls > alerts.sent[k].time
          /\ log.last_update[1].ordinal > Len(slaves)
    /\ 1 \in alerts.currently_offline
    /\ alerts.last_alerts[1] = None
    /\ Cardinality(Sent("OFFLINE", 1)) = 1

\* The step that is a call update_slave(s, ...), by the update it recorded.
Updated(s) == log'.last_update[s].ordinal # log.last_update[s].ordinal

\* C28: an update without a read error is accepted exactly when its value
\* lies in [0, 28000], both limits included: an accepted update stores the
\* value and sets online; a rejected one (28001, or a value below 0) keeps the
\* stored value, clears online, adds 1 to error_count and records the
\* out-of-range error text.
C28_ValidatorLimits ==
    [][\A s \in Slaves :
         (Updated(s) /\ log'.last_update[s].error = NoError) =>
            LET value == log'.last_update[s].value
            IN  IF 0 <= value /\ value <= 28000
                THEN /\ silo_data'[s].online
                     /\ silo_data'[s].value = value
                     /\ silo_data'[s].last_error = NoError
                     /\ silo_data'[s].error_count = silo_data[s].error_count
                ELSE /\ ~silo_data'[s].online
                     /\ silo_data'[s].value = silo_data[s].value
                     /\ silo_data'[s].last_error = ErrRange
                     /\ silo_data'[s].error_count =
                           silo_data[s].error_count + 1]_vars

\* C28 witness: device 1 was updated with max_value and is online at 100 %,
\* device 2 was updated with max_value + 1 and is offline with the
\* out-of-range error.
C28_Witness ==
    /\ log.last_update[1].value = 28000
    /\ silo_data[1].online
    /\ silo_data[1].percent = 100
    /\ log.last_update[2].value = 28001
    /\ ~silo_data[2].online
    /\ silo_data[2].last_error = ErrRange
    /\ silo_data[2].error_count = 1

\* C29 as stated: the percent of an online device is the exact floor of
\* value * 100 / max_value, and lies in [0, 100].
C29_PercentExactFloor ==
    \A s \in Slaves :
        silo_data[s].online =>
            /\ silo_data[s].percent = (silo_data[s].value * 100) \div 28000
            /\ 0 <= silo_data[s].percent
            /\ silo_data[s].percent <= 100

\* C30: for every device percent is present exactly when value is present,
\* and a present percent is the one update_slave computed from the stored
\* value.
C30_PercentWithValue ==
    \A s \in Slaves :
        /\ (silo_data[s].percent = None) = (silo_data[s].value = None)
        /\ silo_data[s].value # None =>
              silo_data[s].percent = Percent(silo_data[s].value)

\* C30 witness: a device holds the value and percent of an accepted update
\* after a later out-of-range update, next to a device that has neither.
C30_Witness ==
    \E s, t \in Slaves :
        /\ silo_data[s].value = 8120
        /\ silo_data[s].percent # None
        /\ log.last_update[s].value = 28001
        /\ silo_data[t].value = None
        /\ silo_data[t].percent = None

InRead ==
    \/ poll.pc \in {"read1", "read2", "txn", "inflight", "update"}
    \/ poll.pc = "connecting" /\ poll.site # "start"

\* C22: the update of the device at position i of the configured list comes
\* when the devices before it have been updated in this cycle and the devices
\* after it have not; with stop_event set, the per-device check starts no
\* read, the head of the while loop starts no cycle, and outside a read that
\* was already in progress no bus transaction begins and no update is made.
C22_OrderAndStop ==
    /\ [][\A i \in 1..Len(slaves) :
            Updated(slaves[i]) =>
                /\ \A j \in 1..(i - 1) :
                      silo_data[slaves[j]].total_reads =
                          silo_data'[slaves[i]].total_reads
                /\ \A j \in (i + 1)..Len(slaves) :
                      silo_data[slaves[j]].total_reads =
                          silo_data[slaves[i]].total_reads]_vars
    /\ [][(stop_event /\ ~InRead) =>
            /\ poll'.pc # "read1"
            /\ stats'.total_polls = stats.total_polls
            /\ bus'.transaction <= bus.transaction
            /\ silo_data' = silo_data]_vars

\* C22 witness: the signal arrived in the first cycle between device 1 and
\* device 2; the worker has left the loop with device 2 never read.
C22_Witness ==
    /\ stop_event
    /\ poll.pc = "done"
    /\ stats.total_polls = 1
    /\ silo_data[1].total_reads = 1
    /\ silo_data[2].total_reads = 0
    /\ log.last_update[2].ordinal = 0

\* C23: when the writer has stopped, and when DatabaseManager.close() has
\* closed the connection, every accepted record that was in the queue or in
\* the writer's batch at the shutdown signal is a row of the table.
C23_QueueDrained ==
    (writer.pc = "stopped" \/ handler \in {"sleep", "exited"}) =>
        log.at_signal \subseteq Ordinals(table)

\* C24: when the process exits, the polling worker has completed disconnect()
\* and no bus transaction is in flight.
C24_HandleClosedAtExit ==
    handler = "exited" =>
        /\ poll.pc = "done"
        /\ bus.transaction = 0
        /\ client # "open"

\* C25: a history read never executes its query on the connection of the
\* DatabaseManager, which is the writer's, and never while the writer is
\* between the first INSERT of a batch and its commit.
C25_OwnConnection ==
    http.pc = "executing" =>
        /\ http.conn # "manager"
        /\ writer.pc # "inserting"
        /\ txn = <<>>

\* C26: every device record of a snapshot, while it is copied and as it is
\* returned, is a version of that device's record: the record as it was
\* before any update or as a complete update left it.
C26_SnapshotAtomic ==
    /\ http.pc = "copying" =>
          \A k \in 1..Len(http.snapshot) :
              http.snapshot[k].fields \in log.versions[slaves[k]]
    /\ log.last.taken =>
          \A k \in 1..Len(slaves) :
              log.last.fields[k] \in log.versions[slaves[k]]

\* C26 witness: a snapshot was returned after the first update of device 1,
\* and while the worker still holds it the second update of device 1 is in
\* progress under the lock.
C26_Witness ==
    /\ http.pc = "returned"
    /\ poll.pc = "locked"
    /\ poll.idx = 1
    /\ log.last.fields[1].total_reads = 1
    /\ silo_data[1].total_reads = 2

\* C27: no step of the HTTP worker (taking the snapshot, or writing to the
\* map it got) changes the state store; a returned snapshot holds the records
\* of the store; and two successive snapshots with no update between them
\* are equal.
C27_SnapshotPure ==
    /\ [][http' # http =>
            /\ silo_data' = silo_data
            /\ history' = history
            /\ stats' = stats]_vars
    /\ [][(http.pc = "copying" /\ http'.pc = "returned") =>
            \A k \in 1..Len(slaves) :
                http'.snapshot[k].fields = silo_data[slaves[k]]]_vars
    /\ []((log.prev.taken /\ log.prev.updates = log.last.updates) =>
            log.last.fields = log.prev.fields)

\* C27 witness: after an update, a snapshot was returned and written to by
\* its caller, and the next snapshot was returned with no update in between.
C27_Witness ==
    /\ http.pc = "returned"
    /\ log.prev.taken
    /\ log.prev.modified
    /\ log.prev.updates = log.last.updates
    /\ log.last.updates >= 1
    /\ log.last.fields = log.prev.fields

\* C31: a history ring never holds more than history_max_points samples,
\* every sample has an in-range value, and the timestamps do not decrease
\* along the ring; an accepted update puts its sample at the end, after
\* dropping the first sample of a full ring and nothing else, and no other
\* step changes a ring.
C31_HistoryRing ==
    /\ [](\A s \in Slaves :
            /\ Len(history[s]) <= history_max_points
            /\ \A k \in 1..Len(history[s]) : InRange(history[s][k].value)
            /\ \A k \in 1..(Len(history[s]) - 1) :
                  history[s][k].timestamp <= history[s][k + 1].timestamp)
    /\ [][\A s \in Slaves :
            IF Updated(s) /\ Accepted(log'.last_update[s].value,
                                      log'.last_update[s].error)
            THEN history'[s] =
                    (IF Len(history[s]) = history_max_points
                     THEN Tail(history[s]) ELSE history[s])
                    \o <<[timestamp |-> Now,
                          value |-> log'.last_update[s].value,
                          percent |-> silo_data'[s].percent]>>
            ELSE history'[s] = history[s]]_vars

\* C31 witness: device 1 was accepted in three cycles; its ring holds the
\* samples of the second and the third cycle.
C31_Witness ==
    /\ silo_data[1].total_reads = 3
    /\ silo_data[1].error_count = 0
    /\ Len(history[1]) = 2
    /\ history[1][1].timestamp = 2
    /\ history[1][2].timestamp = 3

\* The reads of a device that update_slave accepted.
AcceptedReads(s) == silo_data[s].total_reads - silo_data[s].error_count

RECURSIVE SumAccepted(_)
\* The accepted reads of the first k configured devices.
SumAccepted(k) ==
    IF k = 0 THEN 0 ELSE AcceptedReads(slaves[k]) + SumAccepted(k - 1)

\* C32: at the end of every cycle successful_polls is the number of accepted
\* readings, the sum over the devices of total_reads - error_count.
C32_SuccessfulPolls ==
    poll.pc = "cycle" => stats.successful_polls = SumAccepted(Len(slaves))

\* C36: the length of a device's ring is the smaller of history_max_points
\* and the number of its accepted reads, and the newest sample of a non-empty
\* ring has the device's current value and percent.
C36_RingLength ==
    \A s \in Slaves :
        /\ Len(history[s]) = Min(history_max_points, AcceptedReads(s))
        /\ history[s] # <<>> =>
              /\ history[s][Len(history[s])].value = silo_data[s].value
              /\ history[s][Len(history[s])].percent = silo_data[s].percent

\* C36 witness: device 1 had three accepted reads, more than the ring takes;
\* the ring holds two samples and ends with the value the device shows.
C36_Witness ==
    /\ AcceptedReads(1) = 3
    /\ Len(history[1]) = 2
    /\ history[1][1].value = max_value
    /\ history[1][2].value = 8120
    /\ silo_data[1].value = 8120

\* C34: an update of a device, accepted or rejected, leaves the status
\* record and the history ring of every other device as they were.
C34_OtherDevicesUnchanged ==
    [][\A s \in Slaves :
         Updated(s) =>
             \A t \in Slaves \ {s} :
                 /\ silo_data'[t] = silo_data[t]
                 /\ history'[t] = history[t]]_vars

\* C34 witness: device 1 was accepted, then device 2 was rejected; device 1
\* still shows its accepted reading.
C34_Witness ==
    /\ log.last_update[1].ordinal = 1
    /\ log.last_update[2].ordinal = 2
    /\ silo_data[1].online
    /\ silo_data[1].value = 8120
    /\ Len(history[1]) = 1
    /\ silo_data[2].error_count = 1
    /\ history[2] = <<>>

\* C35: a rejected update leaves value, percent, last_ok and the history
\* ring of its device unchanged and sets online to false, counts one error
\* and one read and records an error text; an accepted update stores its
\* value.
C35_RejectedKeepsValue ==
    [][\A s \in Slaves :
         Updated(s) =>
             IF Accepted(log'.last_update[s].value, log'.last_update[s].error)
             THEN silo_data'[s].value = log'.last_update[s].value
             ELSE /\ silo_data'[s].value = silo_data[s].value
                  /\ silo_data'[s].percent = silo_data[s].percent
                  /\ silo_data'[s].last_ok = silo_data[s].last_ok
                  /\ history'[s] = history[s]
                  /\ ~silo_data'[s].online
                  /\ silo_data'[s].last_error # NoError
                  /\ silo_data'[s].error_count = silo_data[s].error_count + 1
                  /\ silo_data'[s].total_reads = silo_data[s].total_reads + 1]_vars

\* C35 witness: device 1 was accepted with 8120 and then rejected for a value
\* above max_value; it is offline and still holds 8120.
C35_Witness ==
    /\ silo_data[1].total_reads = 2
    /\ silo_data[1].error_count = 1
    /\ ~silo_data[1].online
    /\ silo_data[1].value = 8120
    /\ silo_data[1].last_error = ErrRange
    /\ log.last_update[1].value = max_value + 1

\* A critical alert was handed to the chat transport.
CriticalSent ==
    \E k \in 1..Len(alerts.sent) : alerts.sent[k].kind = "critical"

\* After a crash of the polling loop the critical alert is emitted (the alert
\* manager being enabled) and disconnect() closes the serial handle.
CrashHandled ==
    /\ log.crashed ~> (alerts.enabled => CriticalSent)
    /\ log.crashed ~> (poll.pc = "done" /\ client # "open" /\ ~is_connected)

\* C33: after a crash of the polling loop a critical alert is emitted (the
\* alert manager being enabled), the serial handle is closed by disconnect(),
\* and the process exits with code 1.
C33_CrashExits == CrashHandled /\ (log.crashed ~> (handler = "exited 1"))

====
